---- MODULE Spec2Model ----
(***************************************************************************)
(* Sozi document model: sozi.document.Presentation and sozi.document.Frame *)
(* (src/unnamed/part_000).                                                 *)
(*                                                                         *)
(* Presentation.init partitions the direct children of an SVG root into    *)
(* layers; the selection operations and addFrame manage the selected flags *)
(* of the layers and of the ordered frame sequence and fire notifications. *)
(*                                                                         *)
(* Indices are JavaScript indices (0-based); a TLA+ sequence s holds the   *)
(* element of JavaScript index i at s[i + 1].                              *)
(***************************************************************************)
EXTENDS Integers, Sequences, FiniteSets, TLC

VARIABLES
    pc,          \* "start" before Presentation.init has run, "ready" after
    nextId,      \* the id the next sozi.model.Object.init will assign
    presId,      \* this.id of the Presentation (-1 before init)
    svgRoot,     \* svgRoot.childNodes, the live child list of the SVG root
    svgNodeList, \* the copy of svgRoot.childNodes taken at line 69
    layers,      \* this.layers: layer id -> layer record
    writes,      \* history: the assignments made to this.layers, in order
    frames,      \* this.frames
    fired,       \* history: the events fired by the last call, in order
    lastCall,    \* history: the last call, its arguments, the state before it
    editor       \* the loader of sozi.editor.main.js: its variables, the
                 \* load requests not yet answered, and its history

vars == <<pc, nextId, presId, svgRoot, svgNodeList, layers, writes, frames,
          fired, lastCall, editor>>

(***************************************************************************)
(* Bounds of the model.                                                    *)
(***************************************************************************)
MaxChildren == 4
MaxFrames == 3
\* the files chosen in the file dialog of the editor
MaxLoads == 3

(***************************************************************************)
(* DOM nodes.  ref is the identity of the node object: 1..n for the n      *)
(* children of the loaded document in document order, a negative number    *)
(* for a wrapper, made of the id of the presentation that created it and   *)
(* of its wrapperCount.  element is FALSE for the nodes                    *)
(* whose tagName is undefined (text, comment).  id = "" stands for a       *)
(* missing or empty id attribute: getAttribute("id") is falsy for both.    *)
(***************************************************************************)
DRAWABLE_TAGS ==
    {"g", "image", "path", "rect", "circle", "ellipse", "line", "polyline",
     "polygon", "text", "clippath"}

\* String.prototype.toLowerCase on the local names the model uses.
ToLowerCase(s) ==
    CASE s = "clipPath" -> "clippath"
      [] s = "G" -> "g"
      [] OTHER -> s

\* The properties every object literal inherits from Object.prototype: the
\* keys for which (key in {}) is true.
ObjectPrototypeKeys ==
    {"constructor", "toString", "valueOf", "hasOwnProperty",
     "isPrototypeOf", "propertyIsEnumerable", "toLocaleString"}

\* The JavaScript operator (key in obj) on an object literal.
In(key, obj) == key \in DOMAIN obj \/ key \in ObjectPrototypeKeys

Undefined == "<undefined>"

Node(element, localName, id, hasLabel, label) ==
    [ref |-> 0, element |-> element, localName |-> localName, id |-> id,
     hasLabel |-> hasLabel, label |-> label, synth |-> FALSE,
     children |-> <<>>]

\* "sozi-wrapper-" + this.id + "-" + wrapperCount
WrapperId(id, wrapperCount) ==
    "sozi-wrapper-" \o ToString(id) \o "-" \o ToString(wrapperCount)

\* document.createElementNS(SVG_NS, "g") followed by setAttribute("id", ...)
CreateWrapper(id, wrapperCount) ==
    [ref |-> 0 - (1000 * id + wrapperCount + 1), element |-> TRUE,
     localName |-> "g",
     id |-> WrapperId(id, wrapperCount), hasLabel |-> FALSE, label |-> "",
     synth |-> TRUE, children |-> <<>>]

TextNode == Node(FALSE, "#text", "", FALSE, "")
Rect == Node(TRUE, "rect", "", FALSE, "")
Circle == Node(TRUE, "circle", "", FALSE, "")
ClipPath == Node(TRUE, "clipPath", "", FALSE, "")
Defs == Node(TRUE, "defs", "", FALSE, "")
GroupNoId == Node(TRUE, "g", "", FALSE, "")
GroupL1 == Node(TRUE, "g", "L1", FALSE, "")
GroupL2 == Node(TRUE, "g", "L2", TRUE, "Background")
GroupCtor == Node(TRUE, "g", "constructor", FALSE, "")
\* an authored group whose id has the form of a wrapper id
GroupW0 == Node(TRUE, "g", "sozi-wrapper-1-0", FALSE, "")

\* The kinds of children the documents are drawn from.  ClipPath stands for
\* the drawable elements that are no groups: Rect and Circle, which the
\* pass treats alike, occur in Scenario and SampleDocs.
NodeKinds ==
    {TextNode, ClipPath, Defs, GroupNoId, GroupL1, GroupL2, GroupCtor,
     GroupW0}

\* The child list of a loaded document: each child gets its own identity.
MkDoc(kinds) == [i \in 1..Len(kinds) |-> [kinds[i] EXCEPT !.ref = i]]

\* [whitespace text, <rect>, <g id="L1">, <circle>, <g id="L1">]
Scenario == MkDoc(<<TextNode, Rect, GroupL1, Circle, GroupL1>>)

Docs ==
    {MkDoc(k) : k \in UNION {[1..n -> NodeKinds] : n \in 0..MaxChildren}}
    \cup {Scenario}

(***************************************************************************)
(* DOM operations on a child list.                                         *)
(***************************************************************************)
IndexOf(childNodes, node) ==
    CHOOSE i \in 1..Len(childNodes) : childNodes[i].ref = node.ref

\* parent.removeChild(node)
RemoveChild(childNodes, node) ==
    SelectSeq(childNodes, LAMBDA n : n.ref # node.ref)

\* mutant: the wrapper is appended to the root instead of inserted
InsertBeforeAsAppend(childNodes, newNode, refNode) ==
    Append(childNodes, newNode)

\* parent.insertBefore(newNode, refNode)
InsertBefore(childNodes, newNode, refNode) ==
    LET i == IndexOf(childNodes, refNode)
    IN  SubSeq(childNodes, 1, i - 1) \o <<newNode>>
            \o SubSeq(childNodes, i, Len(childNodes))

\* parent.appendChild(node)
AppendChild(childNodes, node) == Append(childNodes, node)

\* this.layers[id] = layer
Put(map, id, layer) ==
    [k \in DOMAIN map \cup {id} |-> IF k = id THEN layer ELSE map[k]]

EmptyMap == [k \in {} |-> 0]

(***************************************************************************)
(* Presentation.init: the layer-building pass.  st is the state of the     *)
(* pass: the live child list, this.layers, svgWrapper, wrapperCount, and   *)
(* the history of the assignments to this.layers.                          *)
(***************************************************************************)
WrapperLayer(svgWrapper, label) ==
    [auto |-> TRUE, selected |-> TRUE, label |-> label,
     svgNode |-> svgWrapper.ref]

ExplicitLayer(svgNode) ==
    [auto |-> FALSE, selected |-> TRUE,
     label |-> IF svgNode.hasLabel THEN svgNode.label ELSE "#" \o svgNode.id,
     svgNode |-> svgNode.ref]

Register(st, id, layer) ==
    [st EXCEPT !.layers = Put(@, id, layer),
               !.writes = Append(@, [id |-> id, layer |-> layer])]

\* mutant: the test that the id has not been met before is left out
IsValidLayerNoDuplicateTest(nodeName, svgNode, map) ==
    nodeName = "g" /\ svgNode.id # ""

\* line 84: the node is a valid layer
IsValidLayer(nodeName, svgNode, map) ==
    nodeName = "g" /\ svgNode.id # "" /\ ~In(svgNode.id, map)

\* lines 97-99: a new empty wrapper layer
NextWrapper(st, id) ==
    [st EXCEPT !.wrapperCount = @ + 1,
               !.svgWrapper = CreateWrapper(id, st.wrapperCount + 1)]

\* mutant: the wrapper goes into the document even when it is empty
FlushWrapperBeforeAlways(st, svgNode, id) ==
    NextWrapper(
        Register(
            [st EXCEPT !.childNodes = InsertBefore(@, st.svgWrapper, svgNode)],
            st.svgWrapper.id,
            WrapperLayer(st.svgWrapper, "#" \o st.svgWrapper.id)),
        id)

\* lines 87-100: the current wrapper, when it holds elements, goes into the
\* document before svgNode and into the layers
FlushWrapperBefore(st, svgNode, id) ==
    IF st.svgWrapper.children # <<>>
    THEN NextWrapper(
             Register(
                 [st EXCEPT !.childNodes =
                      InsertBefore(@, st.svgWrapper, svgNode)],
                 st.svgWrapper.id,
                 WrapperLayer(st.svgWrapper, "#" \o st.svgWrapper.id)),
             id)
    ELSE st

\* line 112: svgWrapper.appendChild(svgNode) moves the node out of the root
MoveToWrapper(st, svgNode) ==
    [st EXCEPT !.childNodes = RemoveChild(@, svgNode),
               !.svgWrapper.children = AppendChild(@, svgNode)]

\* mutant: text nodes and comments are left in the document
VisitKeepText(st, svgNode, id) ==
    IF ~svgNode.element
    THEN st
    ELSE LET nodeName == ToLowerCase(svgNode.localName)
         IN  IF nodeName \notin DRAWABLE_TAGS
             THEN st
             ELSE IF IsValidLayer(nodeName, svgNode, st.layers)
                  THEN Register(FlushWrapperBefore(st, svgNode, id),
                                svgNode.id, ExplicitLayer(svgNode))
                  ELSE MoveToWrapper(st, svgNode)

\* mutant: the test of the tag against DRAWABLE_TAGS is left out
VisitNoTagTest(st, svgNode, id) ==
    IF ~svgNode.element
    THEN [st EXCEPT !.childNodes = RemoveChild(@, svgNode)]
    ELSE LET nodeName == ToLowerCase(svgNode.localName)
         IN  IF IsValidLayer(nodeName, svgNode, st.layers)
             THEN Register(FlushWrapperBefore(st, svgNode, id),
                           svgNode.id, ExplicitLayer(svgNode))
             ELSE MoveToWrapper(st, svgNode)

\* lines 71-116: the body of the forEach callback
Visit(st, svgNode, id) ==
    IF ~svgNode.element
    THEN [st EXCEPT !.childNodes = RemoveChild(@, svgNode)]
    ELSE LET nodeName == ToLowerCase(svgNode.localName)
         IN  IF nodeName \notin DRAWABLE_TAGS
             THEN st
             ELSE IF IsValidLayer(nodeName, svgNode, st.layers)
                  THEN Register(FlushWrapperBefore(st, svgNode, id),
                                svgNode.id, ExplicitLayer(svgNode))
                  ELSE MoveToWrapper(st, svgNode)

\* lines 57-69: the state before the first child is visited
StartPass(childNodes, id) ==
    [childNodes |-> childNodes, layers |-> EmptyMap, writes |-> <<>>,
     wrapperCount |-> 0, svgWrapper |-> CreateWrapper(id, 0)]

\* the state after the first n children of the copy have been visited
RECURSIVE ForEach(_, _, _)
ForEach(nodeList, n, id) ==
    IF n = 0
    THEN StartPass(nodeList, id)
    ELSE Visit(ForEach(nodeList, n - 1, id), nodeList[n], id)

\* lines 120-127: the last wrapper, when it holds elements
FlushLastWrapper(st) ==
    IF st.svgWrapper.children # <<>>
    THEN Register([st EXCEPT !.childNodes = AppendChild(@, st.svgWrapper)],
                  st.svgWrapper.id, WrapperLayer(st.svgWrapper, Undefined))
    ELSE st

BuildLayers(childNodes, id) ==
    FlushLastWrapper(ForEach(childNodes, Len(childNodes), id))

\* sozi.model.Object.init: the object takes the next value of a counter
\* that only grows, so no id is given twice
ObjectInit(counter) == [id |-> counter, nextId |-> counter + 1]

\* threw: the call ended with an exception; onlyAdds: every call made on
\* the presentation so far was a call of addFrame
NoCall ==
    [op |-> "none", layerId |-> "", frameIndex |-> -1, ret |-> -1,
     preFrames |-> <<>>, preLayers |-> EmptyMap, threw |-> FALSE,
     onlyAdds |-> TRUE]

\* The loader before the load event of the window: presentation and
\* selection are undefined (FALSE), no view is initialised, no file dialog
\* is open, no load is requested.  initRoots, jsonRuns and saved are the
\* history of the calls of Presentation.init (was the root an SVG root),
\* of loadJSON (was presentation defined) and of backend.save; threw says
\* that the last handler ended with an exception.
NoEditor ==
    [started |-> FALSE, dialog |-> FALSE, chosen |-> 0, pending |-> <<>>,
     presentation |-> FALSE, selection |-> FALSE, views |-> FALSE,
     alerts |-> 0, initRoots |-> <<>>, jsonRuns |-> <<>>, saved |-> <<>>,
     threw |-> FALSE]

\* Presentation.init(svgRoot) on a root with the child list childNodes
ConstructFrom(childNodes) ==
    /\ LET this == ObjectInit(nextId)
           st == BuildLayers(childNodes, this.id)
       IN  /\ presId' = this.id
           /\ nextId' = this.nextId
           /\ svgNodeList' = childNodes
           /\ svgRoot' = st.childNodes
           /\ layers' = st.layers
           /\ writes' = st.writes
    /\ frames' = <<>>
    /\ fired' = <<>>
    /\ lastCall' = [NoCall EXCEPT !.op = "init"]

\* Presentation.init(svgRoot) on the current child list of the root
Construct == ConstructFrom(svgRoot)

\* Presentation.init(null): lines 55-65 take an id and reset this.layers and
\* this.frames, then svgRoot.childNodes at line 69 throws a TypeError
ConstructOnNull ==
    /\ LET this == ObjectInit(nextId)
       IN  /\ presId' = this.id
           /\ nextId' = this.nextId
    /\ svgNodeList' = <<>>
    /\ svgRoot' = <<>>
    /\ layers' = EmptyMap
    /\ writes' = <<>>
    /\ frames' = <<>>
    /\ fired' = <<>>
    /\ lastCall' = [NoCall EXCEPT !.op = "init", !.threw = TRUE]

\* Presentation.init(svgRoot) on the loaded document
PresentationInit ==
    /\ pc = "start"
    /\ Construct
    /\ pc' = "ready"
    /\ UNCHANGED editor

\* a new Presentation initialised on the tree the first one has left
PresentationInitAgain ==
    /\ pc = "ready"
    /\ Construct
    /\ pc' = "rebuilt"
    /\ UNCHANGED editor

(***************************************************************************)
(* Events.  fire(name, args...) calls the handlers registered for name;    *)
(* the handlers here leave the presentation alone, and the model records   *)
(* the event.  An event that carries no layer id has layerId = "", one     *)
(* that carries no frame index has frameIndex = -1, one that carries no    *)
(* frame has frame = -1 (frames are named by their id).                    *)
(***************************************************************************)
Event(name, layerId, frameIndex, frame) ==
    [name |-> name, layerId |-> layerId, frameIndex |-> frameIndex,
     frame |-> frame]

\* this.fire(name, ...): p is the presentation, [layers, frames, fired]
Fire(p, event) == [p EXCEPT !.fired = Append(@, event)]

\* the opaque view states handed to addFrame
FrameStates == {"state-a", "state-b"}

\* mutant: the frame takes the id of its presentation
FrameInitPresentationId(id, pres, state) ==
    [id |-> pres, presentation |-> pres, state |-> state,
     frameId |-> "frame" \o ToString(pres), title |-> "New frame",
     selected |-> FALSE]

\* Frame.init(pres, state), lines 29-40; id is this.id
FrameInit(id, pres, state) ==
    [id |-> id, presentation |-> pres, state |-> state,
     frameId |-> "frame" \o ToString(id), title |-> "New frame",
     selected |-> FALSE]

\* What this.layers[key] evaluates to: "own" for an entry of the map,
\* "inherited" for a property of Object.prototype (a function object, which
\* takes new properties), "undefined" otherwise.
LookupLayer(map, key) ==
    IF key \in DOMAIN map THEN "own"
    ELSE IF key \in ObjectPrototypeKeys THEN "inherited"
    ELSE "undefined"

\* What this.frames[frameIndex] evaluates to.
LookupFrame(frameList, frameIndex) ==
    IF frameIndex \in 0..(Len(frameList) - 1) THEN "own" ELSE "undefined"

\* The assignment x.selected = v with x undefined: a TypeError leaves the
\* function; p.threw says that the call has ended so.
Throw(p) == [p EXCEPT !.threw = TRUE]

\* this.layers[layerId].selected = value, lines 179 and 197
SetLayerSelected(p, layerId, value) ==
    CASE LookupLayer(p.layers, layerId) = "own" ->
             [p EXCEPT !.layers[layerId].selected = value]
      [] LookupLayer(p.layers, layerId) = "inherited" -> p
      [] OTHER -> Throw(p)

\* this.frames[frameIndex].selected = value, lines 247 and 265
SetFrameSelected(p, frameIndex, value) ==
    IF LookupFrame(p.frames, frameIndex) = "own"
    THEN [p EXCEPT !.frames[frameIndex + 1].selected = value]
    ELSE Throw(p)

\* the statements after one that threw are not executed
Then(p, q) == IF p.threw THEN p ELSE q

\* lines 178-182
selectLayer(p, layerId) ==
    LET p1 == Then(p, SetLayerSelected(p, layerId, TRUE))
    IN  Then(p1, Fire(p1, Event("selectLayer", layerId, -1, -1)))

\* lines 196-200
deselectLayer(p, layerId) ==
    LET p1 == Then(p, SetLayerSelected(p, layerId, FALSE))
    IN  Then(p1, Fire(p1, Event("deselectLayer", layerId, -1, -1)))

\* mutant: the event is fired only when the flag changes
selectFrameIfChanged(p, frameIndex) ==
    LET p1 == Then(p, SetFrameSelected(p, frameIndex, TRUE))
    IN  IF p1.threw \/ p1.frames = p.frames
        THEN p1
        ELSE Fire(p1, Event("selectFrame", "", frameIndex, -1))

\* lines 246-250
selectFrame(p, frameIndex) ==
    LET p1 == Then(p, SetFrameSelected(p, frameIndex, TRUE))
    IN  Then(p1, Fire(p1, Event("selectFrame", "", frameIndex, -1)))

\* lines 264-268
deselectFrame(p, frameIndex) ==
    LET p1 == Then(p, SetFrameSelected(p, frameIndex, FALSE))
    IN  Then(p1, Fire(p1, Event("deselectFrame", "", frameIndex, -1)))

\* the keys of this.layers in the order for-in enumerates them: the order
\* in which the keys were first assigned
RECURSIVE KeyOrder(_, _)
KeyOrder(w, n) ==
    IF n = 0 THEN <<>>
    ELSE LET before == KeyOrder(w, n - 1)
         IN  IF \E j \in 1..Len(before) : before[j] = w[n].id
             THEN before
             ELSE Append(before, w[n].id)

LayerIds == KeyOrder(writes, Len(writes))

\* lines 141-146: the first n rounds of the for-in loop
RECURSIVE selectAllLayersLoop(_, _, _)
selectAllLayersLoop(p, ids, n) ==
    IF n = 0 THEN p
    ELSE selectLayer(selectAllLayersLoop(p, ids, n - 1), ids[n])

\* mutant: the layers that are selected already are passed over
selectAllLayersSkipSelected(p, ids) ==
    LET todo == SelectSeq(ids, LAMBDA id : ~p.layers[id].selected)
    IN  selectAllLayersLoop(p, todo, Len(todo))

selectAllLayers(p, ids) == selectAllLayersLoop(p, ids, Len(ids))

\* lines 157-162
RECURSIVE deselectAllLayersLoop(_, _, _)
deselectAllLayersLoop(p, ids, n) ==
    IF n = 0 THEN p
    ELSE deselectLayer(deselectAllLayersLoop(p, ids, n - 1), ids[n])

deselectAllLayers(p, ids) == deselectAllLayersLoop(p, ids, Len(ids))

\* lines 211-216: the loop from frameIndex on
RECURSIVE selectAllFramesFrom(_, _)
selectAllFramesFrom(p, frameIndex) ==
    IF frameIndex < Len(p.frames)
    THEN selectAllFramesFrom(selectFrame(p, frameIndex), frameIndex + 1)
    ELSE p

selectAllFrames(p) == selectAllFramesFrom(p, 0)

\* lines 227-232
RECURSIVE deselectAllFramesFrom(_, _)
deselectAllFramesFrom(p, frameIndex) ==
    IF frameIndex < Len(p.frames)
    THEN deselectAllFramesFrom(deselectFrame(p, frameIndex), frameIndex + 1)
    ELSE p

deselectAllFrames(p) == deselectAllFramesFrom(p, 0)

\* lines 272-277: the value of frameIndex when the loop ends: the index of
\* the last selected frame (the break leaves it there), -1 when there is none
RECURSIVE ScanSelected(_, _)
ScanSelected(frameList, frameIndex) ==
    IF frameIndex < 0 THEN -1
    ELSE IF frameList[frameIndex + 1].selected THEN frameIndex
    ELSE ScanSelected(frameList, frameIndex - 1)

\* mutant: the new frame goes before the selected frame
SpliceStartAtSelected(frameIndex) == frameIndex

\* line 274: where the new frame goes when frame frameIndex is selected
SpliceStart(frameIndex) == frameIndex + 1

\* mutant: splice(start, 1, frame) takes the frame at start out
SpliceReplacing(frameList, start, frame) ==
    SubSeq(frameList, 1, start) \o <<frame>>
        \o SubSeq(frameList, start + 2, Len(frameList))

\* this.frames.splice(start, 0, frame)
Splice(frameList, start, frame) ==
    SubSeq(frameList, 1, start) \o <<frame>>
        \o SubSeq(frameList, start + 1, Len(frameList))

\* lines 278-281 and the uses of frameIndex in lines 282 and 284: the index
\* that is fired and then selected, given frameIndex as the loop left it
\* and the length of this.frames before the insertion
FiredIndex(frameIndex, length) ==
    IF frameIndex = -1 THEN length ELSE frameIndex

\* mutant: the addFrame event is fired after the selection has changed
addFrameFireLast(p, frame) ==
    LET found == ScanSelected(p.frames, Len(p.frames) - 1)
        inserted ==
            IF found = -1
            THEN Append(p.frames, frame)
            ELSE Splice(p.frames, SpliceStart(found), frame)
        frameIndex == FiredIndex(found, Len(p.frames))
        p1 == selectFrame(deselectAllFrames([p EXCEPT !.frames = inserted]),
                          frameIndex)
    IN  Fire(p1, Event("addFrame", "", frameIndex, frame.id))

\* lines 270-286, after the frame has been created
addFrame(p, frame) ==
    LET found == ScanSelected(p.frames, Len(p.frames) - 1)
        inserted ==
            IF found = -1
            THEN Append(p.frames, frame)
            ELSE Splice(p.frames, SpliceStart(found), frame)
        frameIndex == FiredIndex(found, Len(p.frames))
        p1 == Fire([p EXCEPT !.frames = inserted],
                   Event("addFrame", "", frameIndex, frame.id))
    IN  selectFrame(deselectAllFrames(p1), frameIndex)

(***************************************************************************)
(* The operations as actions.                                              *)
(***************************************************************************)
Pres ==
    [layers |-> layers, frames |-> frames, fired |-> <<>>, threw |-> FALSE]

\* layer ids that are no keys of this.layers: one that is no property at
\* all, one that this.layers inherits from Object.prototype
UnknownLayerIds == {"no-such-layer", "constructor"}

\* the arguments the layer operations are called with
LayerIdArgs == DOMAIN layers \cup UnknownLayerIds

\* the arguments the frame operations are called with: the indices of the
\* frames, the index before the first and the index after the last
FrameIndexArgs == (0 - 1)..Len(frames)

Call(op, layerId, frameIndex, ret) ==
    [op |-> op, layerId |-> layerId, frameIndex |-> frameIndex, ret |-> ret,
     preFrames |-> frames, preLayers |-> layers, threw |-> FALSE,
     onlyAdds |-> (op = "addFrame" /\ lastCall.onlyAdds)]

Returns(p, call) ==
    /\ layers' = p.layers
    /\ frames' = p.frames
    /\ fired' = p.fired
    /\ lastCall' = [call EXCEPT !.threw = p.threw]
    /\ UNCHANGED <<pc, presId, svgRoot, svgNodeList, writes, editor>>

SelectLayer ==
    /\ pc = "ready"
    /\ \E layerId \in LayerIdArgs :
           Returns(selectLayer(Pres, layerId),
                   Call("selectLayer", layerId, -1, -1))
    /\ UNCHANGED nextId

DeselectLayer ==
    /\ pc = "ready"
    /\ \E layerId \in LayerIdArgs :
           Returns(deselectLayer(Pres, layerId),
                   Call("deselectLayer", layerId, -1, -1))
    /\ UNCHANGED nextId

SelectFrame ==
    /\ pc = "ready"
    /\ \E frameIndex \in FrameIndexArgs :
           Returns(selectFrame(Pres, frameIndex),
                   Call("selectFrame", "", frameIndex, -1))
    /\ UNCHANGED nextId

DeselectFrame ==
    /\ pc = "ready"
    /\ \E frameIndex \in FrameIndexArgs :
           Returns(deselectFrame(Pres, frameIndex),
                   Call("deselectFrame", "", frameIndex, -1))
    /\ UNCHANGED nextId

SelectAllLayers ==
    /\ pc = "ready"
    /\ Returns(selectAllLayers(Pres, LayerIds),
               Call("selectAllLayers", "", -1, -1))
    /\ UNCHANGED nextId

DeselectAllLayers ==
    /\ pc = "ready"
    /\ Returns(deselectAllLayers(Pres, LayerIds),
               Call("deselectAllLayers", "", -1, -1))
    /\ UNCHANGED nextId

SelectAllFrames ==
    /\ pc = "ready"
    /\ Returns(selectAllFrames(Pres), Call("selectAllFrames", "", -1, -1))
    /\ UNCHANGED nextId

DeselectAllFrames ==
    /\ pc = "ready"
    /\ Returns(deselectAllFrames(Pres),
               Call("deselectAllFrames", "", -1, -1))
    /\ UNCHANGED nextId

\* addFrame(state): Frame.create().init(this, state) takes the next id
AddFrame ==
    /\ pc = "ready"
    /\ Len(frames) < MaxFrames
    /\ LET this == ObjectInit(nextId)
       IN  /\ \E state \in FrameStates :
                  Returns(addFrame(Pres, FrameInit(this.id, presId, state)),
                          Call("addFrame", "", -1, this.id))
           /\ nextId' = this.nextId

InitBuild ==
    /\ pc = "start"
    /\ nextId \in 1..2
    /\ presId = -1
    /\ svgRoot \in Docs
    /\ svgNodeList = <<>>
    /\ layers = EmptyMap
    /\ writes = <<>>
    /\ frames = <<>>
    /\ fired = <<>>
    /\ lastCall = NoCall
    /\ editor = NoEditor

NextBuild == PresentationInit

SpecBuild == InitBuild /\ [][NextBuild]_vars

NextRebuild == PresentationInit \/ PresentationInitAgain

SpecRebuild == InitBuild /\ [][NextRebuild]_vars

\* the documents the presentation of Spec is built from
SampleDocs ==
    {MkDoc(<<Rect, GroupL2, Defs>>), MkDoc(<<TextNode, GroupL1>>)}

Init ==
    /\ pc = "start"
    /\ nextId = 1
    /\ presId = -1
    /\ svgRoot \in SampleDocs
    /\ svgNodeList = <<>>
    /\ layers = EmptyMap
    /\ writes = <<>>
    /\ frames = <<>>
    /\ fired = <<>>
    /\ lastCall = NoCall
    /\ editor = NoEditor

Next ==
    \/ PresentationInit
    \/ SelectLayer
    \/ DeselectLayer
    \/ SelectFrame
    \/ DeselectFrame
    \/ SelectAllLayers
    \/ DeselectAllLayers
    \/ SelectAllFrames
    \/ DeselectAllFrames
    \/ AddFrame

Spec == Init /\ [][Next]_vars

(***************************************************************************)
(* The loader (src/js/sozi.editor.main.js).  The backend answers every     *)
(* backend.load(fileName) with one load event (fileName, err, data); a     *)
(* document is what querySelector("svg") finds in data: an SVG root with   *)
(* its child list, or nothing (null).                                      *)
(***************************************************************************)
FileNames == {"drawing.svg", "drawing.sozi.json", "notes.txt"}

\* data that holds an <svg> element, and data that holds none
SvgData(childNodes) == [svg |-> TRUE, childNodes |-> childNodes]
NoSvgData == [svg |-> FALSE, childNodes |-> <<>>]

Documents == {SvgData(d) : d \in SampleDocs} \cup {NoSvgData}

\* fileName.match(/suffix$/)
EndsWith(fileName, suffix) ==
    /\ Len(fileName) >= Len(suffix)
    /\ SubSeq(fileName, Len(fileName) - Len(suffix) + 1, Len(fileName))
           = suffix

\* fileName.replace(/\.svg$/, ".sozi.json"), line 32
ReplaceSvgSuffix(fileName) ==
    IF EndsWith(fileName, ".svg")
    THEN SubSeq(fileName, 1, Len(fileName) - Len(".svg")) \o ".sozi.json"
    ELSE fileName

\* backend.load(fileName): the request waits for its load event
BackendLoad(ed, fileName) == [ed EXCEPT !.pending = Append(@, fileName)]

\* lines 49-54: the function the load listener calls
Dispatch(fileName, err) ==
    IF EndsWith(fileName, ".svg") /\ ~err THEN "loadSVG"
    ELSE IF EndsWith(fileName, ".sozi.json") THEN "loadJSON"
    ELSE "none"

\* what the loader and the backend leave alone
UnchangedPresentation ==
    UNCHANGED <<pc, nextId, presId, svgRoot, svgNodeList, layers, writes,
                frames, fired, lastCall>>

\* lines 2-10 and 57-68: the load event of the window; backend.svgFileName
\* is a file name, or empty, and then the file dialog opens
LoaderStart ==
    /\ ~editor.started
    /\ \E svgFileName \in FileNames \cup {""} :
           LET ed == [editor EXCEPT !.started = TRUE]
           IN  editor' = IF svgFileName # ""
                         THEN BackendLoad(ed, svgFileName)
                         ELSE [ed EXCEPT !.dialog = TRUE]
    /\ UnchangedPresentation

\* lines 65-67: a file is chosen in the file dialog
ChooseFile ==
    /\ editor.dialog
    /\ editor.chosen < MaxLoads
    /\ \E value \in FileNames :
           editor' = BackendLoad([editor EXCEPT !.chosen = @ + 1], value)
    /\ UnchangedPresentation

\* the request of index i is answered
Answered(i) ==
    [editor EXCEPT
        !.pending = SubSeq(@, 1, i - 1) \o SubSeq(@, i + 1, Len(@)),
        !.threw = FALSE]

\* lines 12-33: loadSVG(fileName, data), called by the listener (line 50)
LoadSVGEvent ==
    \E i \in 1..Len(editor.pending), err \in BOOLEAN, data \in Documents :
        LET fileName == editor.pending[i]
            ed == Answered(i)
            \* lines 15-17: the alert; the function goes on
            ed1 == IF data.svg THEN ed ELSE [ed EXCEPT !.alerts = @ + 1]
            \* line 20: Presentation.init(svgRoot) is called
            ed2 == [ed1 EXCEPT !.initRoots = Append(@, data.svg)]
        IN  /\ Dispatch(fileName, err) = "loadSVG"
            /\ IF data.svg
               THEN /\ ConstructFrom(data.childNodes)
                    /\ pc' = "ready"
                    /\ editor' =
                           BackendLoad(
                               [ed2 EXCEPT !.presentation = TRUE,
                                           !.selection = TRUE,
                                           !.views = TRUE],
                               ReplaceSvgSuffix(fileName))
               ELSE /\ ConstructOnNull
                    /\ pc' = "failed"
                    /\ editor' = [ed2 EXCEPT !.threw = TRUE]

\* lines 35-46: loadJSON(fileName, data), called by the listener (line 53);
\* presentation.upgrade() throws a TypeError when presentation is undefined
LoadJSONEvent ==
    /\ \E i \in 1..Len(editor.pending), err \in BOOLEAN :
           LET fileName == editor.pending[i]
               ed == [Answered(i) EXCEPT
                         !.jsonRuns = Append(@, editor.presentation)]
           IN  /\ Dispatch(fileName, err) = "loadJSON"
               /\ editor' = IF editor.presentation
                             THEN [ed EXCEPT !.saved = Append(@, fileName)]
                             ELSE [ed EXCEPT !.threw = TRUE]
    /\ UnchangedPresentation

\* lines 48-55: a load event the listener passes over
OtherLoadEvent ==
    /\ \E i \in 1..Len(editor.pending), err \in BOOLEAN :
           /\ Dispatch(editor.pending[i], err) = "none"
           /\ editor' = Answered(i)
    /\ UnchangedPresentation

InitLoader ==
    /\ pc = "start"
    /\ nextId = 1
    /\ presId = -1
    /\ svgRoot = <<>>
    /\ svgNodeList = <<>>
    /\ layers = EmptyMap
    /\ writes = <<>>
    /\ frames = <<>>
    /\ fired = <<>>
    /\ lastCall = NoCall
    /\ editor = NoEditor

NextLoader ==
    \/ LoaderStart
    \/ ChooseFile
    \/ LoadSVGEvent
    \/ LoadJSONEvent
    \/ OtherLoadEvent

SpecLoader == InitLoader /\ [][NextLoader]_vars

(***************************************************************************)
(* Observations of the tree and of the layer map after the pass.           *)
(***************************************************************************)
Drawable(n) == n.element /\ ToLowerCase(n.localName) \in DRAWABLE_TAGS

Refs(nodes) == [i \in 1..Len(nodes) |-> nodes[i].ref]

RefSet(nodes) == {nodes[i].ref : i \in 1..Len(nodes)}

\* the original drawable direct children, in document order
OrigDrawables == SelectSeq(svgNodeList, Drawable)

\* the direct children of the root that are wrappers or drawable elements
TreeLayerNodes == SelectSeq(svgRoot, LAMBDA n : n.synth \/ Drawable(n))

TreeWrappers == SelectSeq(svgRoot, LAMBDA n : n.synth)

\* what a layer node holds: a wrapper its children, a group itself
Contents(n) == IF n.synth THEN n.children ELSE <<n>>

RECURSIVE Flatten(_)
Flatten(nodes) ==
    IF nodes = <<>> THEN <<>>
    ELSE Contents(Head(nodes)) \o Flatten(Tail(nodes))

\* the ids of the registered layers whose node holds the node of identity r
LayersHolding(r) ==
    {k \in DOMAIN layers :
        \E i \in 1..Len(svgRoot) :
            /\ svgRoot[i].ref = layers[k].svgNode
            /\ r \in RefSet(Contents(svgRoot[i]))}

\* the state of the pass before / after the i-th child of the copy is visited
Before(i) == ForEach(svgNodeList, i - 1, presId)
After(i) == ForEach(svgNodeList, i, presId)

\* the i-th child passes the test of line 84 when it is visited
Qualifying(i) ==
    IsValidLayer(ToLowerCase(svgNodeList[i].localName), svgNodeList[i],
                 Before(i).layers)

\* the maximal runs of consecutive non-qualifying drawable children, as
\* sequences of node identities, delimited by the qualifying groups
RECURSIVE SplitRuns(_, _, _)
SplitRuns(i, cur, acc) ==
    LET closed == IF cur # <<>> THEN Append(acc, cur) ELSE acc
    IN  IF i > Len(svgNodeList) THEN closed
        ELSE IF ~Drawable(svgNodeList[i]) THEN SplitRuns(i + 1, cur, acc)
        ELSE IF Qualifying(i) THEN SplitRuns(i + 1, <<>>, closed)
        ELSE SplitRuns(i + 1, Append(cur, svgNodeList[i].ref), acc)

MaximalRuns == SplitRuns(1, <<>>, <<>>)

AutoWrites == SelectSeq(writes, LAMBDA w : w.layer.auto)

Built == pc = "ready"

(***************************************************************************)
(* C4: after the pass every original drawable direct child of the root is  *)
(* inside (or is the node of) exactly one layer registered in the map.     *)
(***************************************************************************)
C4_EveryDrawableInOneRegisteredLayer ==
    Built =>
        \A i \in 1..Len(svgNodeList) :
            Drawable(svgNodeList[i]) =>
                Cardinality(LayersHolding(svgNodeList[i].ref)) = 1

(***************************************************************************)
(* C5 as stated: after the pass every remaining direct child of the root   *)
(* is an explicit layer node or a synthesized wrapper node.                *)
(***************************************************************************)
IsExplicitLayerNode(n) ==
    /\ ~n.synth
    /\ n.element
    /\ ToLowerCase(n.localName) = "g"
    /\ n.id # ""
    /\ \E j \in 1..Len(writes) :
           ~writes[j].layer.auto /\ writes[j].layer.svgNode = n.ref

C6_LayerIdsUnique ==
    Built =>
        /\ Cardinality(DOMAIN layers) = Len(TreeLayerNodes)
        /\ \A i, j \in 1..Len(TreeLayerNodes) :
               i # j => TreeLayerNodes[i].id # TreeLayerNodes[j].id

(***************************************************************************)
(* C7: concatenating the contents of the layer nodes in tree order (a      *)
(* group contributes itself, a wrapper its children in order) gives the    *)
(* original drawable direct children in their original order.              *)
(***************************************************************************)
C7_OrderPreserved ==
    Built => Refs(Flatten(TreeLayerNodes)) = Refs(OrigDrawables)

C7_Witness ==
    /\ Built
    /\ Len(TreeWrappers) >= 2
    /\ \E i \in 1..Len(svgRoot) :
           svgRoot[i].synth /\ Len(svgRoot[i].children) >= 2
    /\ \E i \in 1..Len(svgNodeList) : ~Drawable(svgNodeList[i])

IsDuplicate(i) ==
    /\ svgNodeList[i].element
    /\ ToLowerCase(svgNodeList[i].localName) = "g"
    /\ svgNodeList[i].id # ""
    /\ svgNodeList[i].id \in DOMAIN Before(i).layers

AddFrameReturned == lastCall.op = "addFrame"

\* the JavaScript indices of the frames that were selected before the call
SelectedBefore ==
    {i \in 0..(Len(lastCall.preFrames) - 1) : lastCall.preFrames[i + 1].selected}

Max(S) == CHOOSE m \in S : \A x \in S : x <= m

\* the JavaScript index at which the frame the call returned sits
IndexOfNewFrame ==
    CHOOSE i \in 0..(Len(frames) - 1) : frames[i + 1].id = lastCall.ret

(***************************************************************************)
(* C1: when addFrame returns, the new frame is selected and no other frame *)
(* of the sequence is.                                                     *)
(***************************************************************************)
C1_OnlyNewFrameSelected ==
    AddFrameReturned =>
        \A i \in 1..Len(frames) :
            frames[i].selected <=> frames[i].id = lastCall.ret

(***************************************************************************)
(* C2: addFrame puts the new frame at index k + 1, k the highest index of  *)
(* a frame selected at the time of the call, and at the end when no frame  *)
(* is selected; the sequence grows by exactly one frame.                   *)
(***************************************************************************)
C2_InsertedAfterLastSelected ==
    AddFrameReturned =>
        /\ Len(frames) = Len(lastCall.preFrames) + 1
        /\ Cardinality({i \in 1..Len(frames) : frames[i].id = lastCall.ret}) = 1
        /\ \A i \in 1..Len(lastCall.preFrames) :
               lastCall.preFrames[i].id # lastCall.ret
        /\ IndexOfNewFrame =
               IF SelectedBefore = {}
               THEN Len(lastCall.preFrames)
               ELSE Max(SelectedBefore) + 1

C2_Witness ==
    /\ AddFrameReturned
    /\ Len(lastCall.preFrames) >= 2
    /\ SelectedBefore # {}
    /\ Max(SelectedBefore) + 1 < Len(lastCall.preFrames)
    /\ IndexOfNewFrame = Max(SelectedBefore) + 1

(***************************************************************************)
(* C3: the addFrame event carries the new frame and the index at which the *)
(* new frame sits: frames[index] is the new frame.                         *)
(***************************************************************************)
C3_AddFrameEventIndex ==
    AddFrameReturned =>
        /\ fired # <<>>
        /\ fired[1].name = "addFrame"
        /\ fired[1].frame = lastCall.ret
        /\ fired[1].frameIndex \in 0..(Len(frames) - 1)
        /\ frames[fired[1].frameIndex + 1].id = lastCall.ret

(***************************************************************************)
(* C10: selectLayer, deselectLayer, selectFrame and deselectFrame, called  *)
(* with a valid argument, set the selected flag of their target and fire   *)
(* exactly one event of their own name carrying the argument, also when    *)
(* the flag had that value already (the state is then left as it was).     *)
(***************************************************************************)
ValidLayerCall ==
    /\ lastCall.op \in {"selectLayer", "deselectLayer"}
    /\ lastCall.layerId \in DOMAIN lastCall.preLayers

ValidFrameCall ==
    /\ lastCall.op \in {"selectFrame", "deselectFrame"}
    /\ lastCall.frameIndex \in 0..(Len(lastCall.preFrames) - 1)

C10_SetsFlagAndFiresOnce ==
    /\ ValidLayerCall =>
           LET id == lastCall.layerId
               target == (lastCall.op = "selectLayer")
           IN  /\ layers[id].selected = target
               /\ fired = <<Event(lastCall.op, id, -1, -1)>>
               /\ lastCall.preLayers[id].selected = target
                      => layers = lastCall.preLayers
               /\ frames = lastCall.preFrames
    /\ ValidFrameCall =>
           LET i == lastCall.frameIndex
               target == (lastCall.op = "selectFrame")
           IN  /\ frames[i + 1].selected = target
               /\ fired = <<Event(lastCall.op, "", i, -1)>>
               /\ lastCall.preFrames[i + 1].selected = target
                      => frames = lastCall.preFrames
               /\ layers = lastCall.preLayers

C10_Witness ==
    /\ lastCall.op = "selectFrame"
    /\ ValidFrameCall
    /\ lastCall.preFrames[lastCall.frameIndex + 1].selected
    /\ Len(frames) >= 2
    /\ frames = lastCall.preFrames
    /\ Len(fired) = 1

(***************************************************************************)
(* C11: selectAllLayers / deselectAllLayers on a presentation of N layers  *)
(* fire exactly N selectLayer / deselectLayer events, one per layer id,    *)
(* whatever was selected before; selectAllFrames / deselectAllFrames on M  *)
(* frames fire exactly M events, with the indices 0..M-1 in ascending      *)
(* order; afterwards every layer (frame) has the flag value asked for.     *)
(***************************************************************************)
C11_OneEventPerEntity ==
    /\ lastCall.op \in {"selectAllLayers", "deselectAllLayers"} =>
           LET name == IF lastCall.op = "selectAllLayers"
                       THEN "selectLayer" ELSE "deselectLayer"
           IN  /\ Len(fired) = Cardinality(DOMAIN layers)
               /\ \A id \in DOMAIN layers :
                      Cardinality({j \in 1..Len(fired) :
                                      fired[j] = Event(name, id, -1, -1)}) = 1
               /\ \A id \in DOMAIN layers :
                      layers[id].selected = (lastCall.op = "selectAllLayers")
               /\ DOMAIN layers = DOMAIN lastCall.preLayers
    /\ lastCall.op \in {"selectAllFrames", "deselectAllFrames"} =>
           LET name == IF lastCall.op = "selectAllFrames"
                       THEN "selectFrame" ELSE "deselectFrame"
           IN  /\ fired = [j \in 1..Len(frames) |-> Event(name, "", j - 1, -1)]
               /\ Len(frames) = Len(lastCall.preFrames)
               /\ \A i \in 1..Len(frames) :
                      frames[i].selected = (lastCall.op = "selectAllFrames")

C11_Witness ==
    /\ lastCall.op = "selectAllLayers"
    /\ Cardinality(DOMAIN layers) >= 2
    /\ \E a, b \in DOMAIN lastCall.preLayers :
           lastCall.preLayers[a].selected /\ ~lastCall.preLayers[b].selected
    /\ Len(fired) = Cardinality(DOMAIN layers)

(***************************************************************************)
(* C12: a selection operation called with a layer id that is not in the    *)
(* layer map, or with a frame index outside 0..len-1, ends with an error:  *)
(* no selected flag changes, the layer map and the frame sequence are as   *)
(* before, and no event is fired.                                          *)
(***************************************************************************)
InvalidCall ==
    \/ /\ lastCall.op \in {"selectLayer", "deselectLayer"}
       /\ lastCall.layerId \notin DOMAIN lastCall.preLayers
    \/ /\ lastCall.op \in {"selectFrame", "deselectFrame"}
       /\ lastCall.frameIndex \notin 0..(Len(lastCall.preFrames) - 1)

C12_InvalidArgumentFailsFast ==
    InvalidCall =>
        /\ lastCall.threw
        /\ fired = <<>>
        /\ layers = lastCall.preLayers
        /\ frames = lastCall.preFrames

(***************************************************************************)
(* C13: a second pass, by a new Presentation on the tree the first pass    *)
(* has left, registers every remaining direct layer node as its own layer, *)
(* creates no wrapper and moves no node.  In a state with pc = "rebuilt",  *)
(* svgNodeList is the tree as the first pass left it and svgRoot the tree  *)
(* after the second pass.                                                  *)
(***************************************************************************)
Rebuilt == pc = "rebuilt"

\* the layer nodes the first pass left as direct children of the root
FirstPassLayerNodes == SelectSeq(svgNodeList, Drawable)

C13_SecondPassChangesNothing ==
    Rebuilt =>
        /\ svgRoot = svgNodeList
        /\ \A j \in 1..Len(writes) : ~writes[j].layer.auto
        /\ Cardinality(DOMAIN layers) = Len(FirstPassLayerNodes)
        /\ \A i \in 1..Len(FirstPassLayerNodes) :
               LET n == FirstPassLayerNodes[i]
               IN  /\ n.id \in DOMAIN layers
                   /\ layers[n.id].svgNode = n.ref

(***************************************************************************)
(* C14: the frames of the sequence have pairwise distinct ids (and         *)
(* frameIds), all of them given out before the counter's present value,    *)
(* and the frame a call of addFrame has created has an id strictly greater *)
(* than the id of every frame created before it, wherever it was inserted. *)
(***************************************************************************)
FrameIds(frameList) == {frameList[i].id : i \in 1..Len(frameList)}

C14_FrameIdsUniqueAndIncreasing ==
    /\ \A i, j \in 1..Len(frames) :
           i # j => /\ frames[i].id # frames[j].id
                    /\ frames[i].frameId # frames[j].frameId
    /\ \A i \in 1..Len(frames) :
           /\ frames[i].id < nextId
           /\ frames[i].frameId = "frame" \o ToString(frames[i].id)
    /\ AddFrameReturned =>
           /\ lastCall.ret \in FrameIds(frames)
           /\ \A x \in FrameIds(lastCall.preFrames) : x < lastCall.ret
           /\ FrameIds(frames) = FrameIds(lastCall.preFrames) \cup {lastCall.ret}

\* the third frame has been created and sits before an older frame
C14_Witness ==
    /\ AddFrameReturned
    /\ Len(frames) = 3
    /\ IndexOfNewFrame < 2
    /\ \E i \in 1..Len(frames) :
           i > IndexOfNewFrame + 1 /\ frames[i].id < lastCall.ret

(***************************************************************************)
(* C15: a call of addFrame fires, in this order, one addFrame event that   *)
(* carries the new frame, one deselectFrame event for every index 0..len-1 *)
(* of the sequence after the insertion in ascending order, and one         *)
(* selectFrame event; it fires no other event.                             *)
(***************************************************************************)
C15_AddFrameEventOrder ==
    AddFrameReturned =>
        /\ ~lastCall.threw
        /\ Len(fired) = Len(frames) + 2
        /\ fired[1].name = "addFrame"
        /\ fired[1].frame = lastCall.ret
        /\ \A j \in 1..Len(frames) :
               fired[j + 1] = Event("deselectFrame", "", j - 1, -1)
        /\ fired[Len(frames) + 2].name = "selectFrame"
        /\ fired[Len(frames) + 2].frameIndex \in 0..(Len(frames) - 1)

\* a call on a sequence that held two frames, one of them selected
C15_Witness ==
    /\ AddFrameReturned
    /\ Len(lastCall.preFrames) = 2
    /\ SelectedBefore # {}
    /\ Len(fired) = 5
    /\ fired[5].name = "selectFrame"

(***************************************************************************)
(* C16: frame conditions.  No operation after construction adds, removes   *)
(* or renames an entry of the layer map, or changes anything of a layer    *)
(* but its selected flag.  selectLayer / deselectLayer(id) change at most  *)
(* the selected flag of layer id and leave the frames alone; selectFrame / *)
(* deselectFrame(i) change at most the selected flag of frame i and leave  *)
(* the layers alone.  addFrame leaves the layers alone and keeps the       *)
(* existing frames: without the new frame the sequence has the frames of   *)
(* before in their order with their ids, titles and states.  A selected    *)
(* flag of an entity other than the argument is cleared by addFrame,       *)
(* deselectAllLayers and deselectAllFrames only.                           *)
(***************************************************************************)
AfterConstruction == lastCall.op \notin {"none", "init"}

\* a layer or a frame without its selected flag
Unselected(x) == [x EXCEPT !.selected = FALSE]

UnselectedFrames(frameList) ==
    [i \in 1..Len(frameList) |-> Unselected(frameList[i])]

\* a selected flag that was set before the call is cleared after it
ClearedLayers ==
    {k \in DOMAIN lastCall.preLayers \cap DOMAIN layers :
        lastCall.preLayers[k].selected /\ ~layers[k].selected}

C16_FrameConditions ==
    AfterConstruction =>
        /\ DOMAIN layers = DOMAIN lastCall.preLayers
        /\ \A k \in DOMAIN layers :
               Unselected(layers[k]) = Unselected(lastCall.preLayers[k])
        /\ lastCall.op \in {"selectLayer", "deselectLayer"} =>
               /\ frames = lastCall.preFrames
               /\ \A k \in DOMAIN layers :
                      k # lastCall.layerId => layers[k] = lastCall.preLayers[k]
        /\ lastCall.op \in {"selectFrame", "deselectFrame"} =>
               /\ layers = lastCall.preLayers
               /\ UnselectedFrames(frames) = UnselectedFrames(lastCall.preFrames)
               /\ \A i \in 1..Len(frames) :
                      i # lastCall.frameIndex + 1
                          => frames[i] = lastCall.preFrames[i]
        /\ lastCall.op \in {"selectAllLayers", "deselectAllLayers"} =>
               frames = lastCall.preFrames
        /\ lastCall.op \in {"selectAllFrames", "deselectAllFrames"} =>
               /\ layers = lastCall.preLayers
               /\ UnselectedFrames(frames) = UnselectedFrames(lastCall.preFrames)
        /\ lastCall.op = "addFrame" =>
               /\ layers = lastCall.preLayers
               /\ SelectSeq(UnselectedFrames(frames),
                            LAMBDA f : f.id # lastCall.ret)
                      = UnselectedFrames(lastCall.preFrames)
        /\ lastCall.op \in {"selectLayer", "selectFrame", "selectAllLayers",
                              "selectAllFrames"} =>
               /\ ClearedLayers = {}
               /\ \A i \in 1..Len(frames) :
                      lastCall.preFrames[i].selected => frames[i].selected

\* addFrame has cleared the flag of a frame that was selected, while a
\* layer was unselected
C16_Witness ==
    /\ AddFrameReturned
    /\ Len(lastCall.preFrames) >= 2
    /\ \E i \in SelectedBefore :
           \E j \in 1..Len(frames) :
               frames[j].id = lastCall.preFrames[i + 1].id /\ ~frames[j].selected
    /\ \E k \in DOMAIN layers : ~layers[k].selected

(***************************************************************************)
(* C17: the pass removes every direct child that is no element (text,      *)
(* comment), so none remains in the tree or in a wrapper; an element whose *)
(* tag is not drawable is passed over: visiting it changes nothing, it     *)
(* stays a direct child of the root, is in no wrapper, is the node of no   *)
(* layer, and these elements keep their order.                             *)
(***************************************************************************)
NonDrawableElement(n) == n.element /\ ~n.synth /\ ~Drawable(n)

\* the nodes the wrappers of the tree hold
WrappedRefs == RefSet(Flatten(TreeWrappers))

C17_TextRemovedNonDrawablesUntouched ==
    Built =>
        /\ \A i \in 1..Len(svgRoot) : svgRoot[i].element
        /\ \A i \in 1..Len(svgNodeList) :
               LET node == svgNodeList[i]
               IN  /\ ~node.element =>
                          /\ node.ref \notin RefSet(After(i).childNodes)
                          /\ After(i).svgWrapper = Before(i).svgWrapper
                          /\ After(i).layers = Before(i).layers
                          /\ node.ref \notin RefSet(svgRoot) \cup WrappedRefs
                   /\ NonDrawableElement(node) =>
                          /\ After(i) = Before(i)
                          /\ node \in {svgRoot[j] : j \in 1..Len(svgRoot)}
                          /\ node.ref \notin WrappedRefs
                          /\ \A k \in DOMAIN layers :
                                 layers[k].svgNode # node.ref
                          /\ \A j \in 1..Len(writes) :
                                 writes[j].layer.svgNode # node.ref
        /\ SelectSeq(svgRoot, NonDrawableElement)
               = SelectSeq(svgNodeList, NonDrawableElement)

\* a document with text, and with two non-drawable elements around a
\* drawable one that went into a wrapper
C17_Witness ==
    /\ Built
    /\ \E i \in 1..Len(svgNodeList) : ~svgNodeList[i].element
    /\ \E i, j, k \in 1..Len(svgNodeList) :
           /\ i < j /\ j < k
           /\ NonDrawableElement(svgNodeList[i])
           /\ svgNodeList[j].ref \in WrappedRefs
           /\ NonDrawableElement(svgNodeList[k])
    /\ Len(SelectSeq(svgRoot, NonDrawableElement)) = 2

(***************************************************************************)
(* C18: every wrapper of the tree holds at least one child and is the node *)
(* of an auto layer of the map; the auto layers, in tree order, carry the  *)
(* ids sozi-wrapper-<presentation id>-0, -1, -2, ... without gaps; every   *)
(* layer of the map has selected = true, and auto = true exactly when its  *)
(* node is a synthesized wrapper.                                          *)
(***************************************************************************)
AutoLayerIds == {k \in DOMAIN layers : layers[k].auto}

\* the node of the tree a layer refers to is a synthesized wrapper
IsWrapperLayer(k) ==
    \E i \in 1..Len(svgRoot) :
        svgRoot[i].ref = layers[k].svgNode /\ svgRoot[i].synth

C18_AutoLayersAttachedAndConsecutive ==
    Built =>
        /\ \A j \in 1..Len(TreeWrappers) :
               LET w == TreeWrappers[j]
               IN  /\ w.children # <<>>
                   /\ w.id = WrapperId(presId, j - 1)
                   /\ w.id \in AutoLayerIds
                   /\ layers[w.id].svgNode = w.ref
        /\ Cardinality(AutoLayerIds) = Len(TreeWrappers)
        /\ Len(AutoWrites) = Len(TreeWrappers)
        /\ \A k \in DOMAIN layers :
               /\ layers[k].selected
               /\ layers[k].auto <=> IsWrapperLayer(k)

\* no authored direct child carries the id of a wrapper of this presentation
NoAuthoredWrapperId ==
    \A i \in 1..Len(svgNodeList) :
        \A n \in 0..Len(svgNodeList) :
            svgNodeList[i].id # WrapperId(presId, n)

(***************************************************************************)
(* C19: when every call made on the presentation since its construction   *)
(* was a call of addFrame, the frames are in the order of their creation:  *)
(* the ids increase strictly with the index.                               *)
(***************************************************************************)
OnlyAddFrameCalls == AddFrameReturned /\ lastCall.onlyAdds

C19_ConsecutiveAddsInCreationOrder ==
    OnlyAddFrameCalls =>
        \A i, j \in 1..Len(frames) :
            i < j => frames[i].id < frames[j].id

(***************************************************************************)
(* C20: the loader calls Presentation.init only with a root that passed    *)
(* the validity check, so a document without a valid SVG root leads to an  *)
(* alert and to no initialisation; and loadJSON runs only when a           *)
(* Presentation has been constructed by loadSVG.                           *)
(***************************************************************************)
\* every root Presentation.init was called with was a valid SVG root
OnlyValidRootsInitialised ==
    \A j \in 1..Len(editor.initRoots) : editor.initRoots[j]

\* every run of loadJSON found presentation defined
LoadJSONAfterLoadSVG ==
    \A j \in 1..Len(editor.jsonRuns) : editor.jsonRuns[j]

C20_LoaderConstructsFromValidRootOnly ==
    /\ OnlyValidRootsInitialised
    /\ LoadJSONAfterLoadSVG
    /\ editor.selection \/ editor.views => editor.presentation

====
